---- MODULE Spec2Model ----
(***************************************************************************)
(* A model of app.py, the Bangalore Rent Optimizer dashboard.              *)
(*                                                                         *)
(* The program is one Streamlit script.  Every render pass executes it     *)
(* from top to bottom: load_data() (memoized by st.cache_data), the empty  *)
(* check with st.stop(), the four sliders, the filter, the value score,    *)
(* the sort and the display.  A pass is triggered by the session opening   *)
(* and by each change of a slider.                                         *)
(*                                                                         *)
(* Units.  Floats are modelled in fixed point:                             *)
(*   Rent, budget          thousands of rupees                             *)
(*   Cafes                 thirds (Rent/1500 = 2*Rent_k/3)                 *)
(*   Safety_Score          tenths                                          *)
(*   Metro_Dist_KM         tenths of a kilometre                           *)
(*   w_cafe, w_metro       tenths                                          *)
(*   lat, lon              1e-4 degrees                                    *)
(*   Value_Score           an exact fraction [num, den]                    *)
(*   a generator output    thousandths of the unit interval, 0..999        *)
(* Text is a sequence of one-character strings.                            *)
(***************************************************************************)
EXTENDS Integers, Sequences, FiniteSets, TLC

VARIABLES
    file,          \* House_Rent_Dataset.csv: whether it exists, and its rows
    quicksort,     \* how this build's quicksort orders equal keys
    rng,           \* state of the process-wide numpy generator
    cache,         \* st.cache_data's entry for load_data()
    loads,         \* number of executions of load_data's body in this process
    df,            \* script variable df at the end of the last pass
    filtered_df,   \* script variable filtered_df at the end of the last pass
    budget, min_safety, w_cafe, w_metro,   \* slider values of the session
    pass,          \* what the last render pass executed and showed
    prev_load      \* what load_data returned in the previous process, if any

vars == << file, quicksort, rng, cache, loads, df, filtered_df,
           budget, min_safety, w_cafe, w_metro, pass, prev_load >>

(***************************************************************************)
(* Bounds of the model.                                                    *)
(***************************************************************************)
MaxRows == 2          \* rows of the input file
MaxLoads == 2         \* executions of load_data's body the model follows

(***************************************************************************)
(* Text.                                                                   *)
(***************************************************************************)
UpperCase ==
  <<"A","B","C","D","E","F","G","H","I","J","K","L","M","N","O","P","Q","R","S","T","U","V","W","X","Y","Z">>
LowerCase ==
  <<"a","b","c","d","e","f","g","h","i","j","k","l","m","n","o","p","q","r","s","t","u","v","w","x","y","z">>

\* str.lower() on one character
LowerChar(c) ==
    IF \E i \in 1..Len(UpperCase) : UpperCase[i] = c
    THEN LowerCase[CHOOSE i \in 1..Len(UpperCase) : UpperCase[i] = c]
    ELSE c

\* str.lower()
lower(s) == [i \in 1..Len(s) |-> LowerChar(s[i])]

\* Python's `sub in s` on strings
In(sub, s) ==
    \E i \in 0..(Len(s) - Len(sub)) :
        \A j \in 1..Len(sub) : s[i + j] = sub[j]

(***************************************************************************)
(* loc_map, in the insertion order a Python dict iterates in.              *)
(***************************************************************************)
loc_map ==
  << [key |-> <<"K","o","r","a","m","a","n","g","a","l","a">>,
      lat |-> 129345, lon |-> 776186],
     [key |-> <<"H","S","R"," ","L","a","y","o","u","t">>,
      lat |-> 129121, lon |-> 776446],
     [key |-> <<"W","h","i","t","e","f","i","e","l","d">>,
      lat |-> 129698, lon |-> 777500],
     [key |-> <<"I","n","d","i","r","a","n","a","g","a","r">>,
      lat |-> 129784, lon |-> 776408],
     [key |-> <<"J","a","y","a","n","a","g","a","r">>,
      lat |-> 129304, lon |-> 775855],
     [key |-> <<"M","a","r","a","t","h","a","h","a","l","l","i">>,
      lat |-> 129591, lon |-> 776974],
     [key |-> <<"E","l","e","c","t","r","o","n","i","c"," ","C","i","t","y">>,
      lat |-> 128399, lon |-> 776770],
     [key |-> <<"B","T","M"," ","L","a","y","o","u","t">>,
      lat |-> 129166, lon |-> 776101],
     [key |-> <<"H","e","b","b","a","l">>,
      lat |-> 130354, lon |-> 775988],
     [key |-> <<"Y","e","l","a","h","a","n","k","a">>,
      lat |-> 131007, lon |-> 775963],
     [key |-> <<"B","e","l","l","a","n","d","u","r">>,
      lat |-> 129260, lon |-> 776762],
     [key |-> <<"S","a","r","j","a","p","u","r">>,
      lat |-> 129237, lon |-> 776546],
     [key |-> <<"B","a","s","a","v","a","n","a","g","u","d","i">>,
      lat |-> 129438, lon |-> 775755],
     [key |-> <<"M","a","l","l","e","s","w","a","r","a","m">>,
      lat |-> 130031, lon |-> 775643] >>

(***************************************************************************)
(* The numpy generator.  Its state is the seed it was last seeded with and *)
(* the number of draws made since; an output is a function of the two.     *)
(* MTOutputs stands for the Mersenne Twister's output function: a fixed    *)
(* cycle that holds both ends of the unit interval.                        *)
(***************************************************************************)
MTOutputs == << 500, 120, 0, 730, 999, 0, 999 >>

\* the next output of the generator, in thousandths
Raw(g) == MTOutputs[((g.seed + g.pos) % Len(MTOutputs)) + 1]

\* the generator after one draw
Advance(g) == [g EXCEPT !.pos = @ + 1]

\* the generator after n draws
AdvanceBy(g, n) == [g EXCEPT !.pos = @ + n]

\* np.random.seed(42)
SeedValue == 42
\* seed() left out: the generator goes on from where the jitter left it
seed_missing(g) == g

seed(g) == [seed |-> SeedValue, pos |-> 0]

\* np.random.uniform(low, high): low + (high - low) * u, u in [0, 1)
uniform(low, high, raw) == low + ((high - low) * raw) \div 1000

\* np.random.randint(low, high): an integer of [low, high)
randint(low, high, raw) == low + ((high - low) * raw) \div 1000

\* Seeds the operating system's entropy may give a fresh process.
EntropySeeds == {1, 2}

(***************************************************************************)
(* Floats that may be NaN.                                                 *)
(***************************************************************************)
nan == [nan |-> TRUE, v |-> 0]
Float(x) == [nan |-> FALSE, v |-> x]

(***************************************************************************)
(* load_data, lines 8-64.                                                  *)
(***************************************************************************)
\* the file is absent: pd.read_csv raises FileNotFoundError
NoFile == [exists |-> FALSE, rows |-> << >>]

\* pd.read_csv: the rows of the file under a RangeIndex
read_csv(f) ==
    [i \in 1..Len(f.rows) |-> [idx |-> i - 1, City |-> f.rows[i].City,
                               Area_Locality |-> f.rows[i].Area_Locality,
                               Rent |-> f.rows[i].Rent]]

\* df[df['City'] == 'Bangalore']
city_filter(rows) == SelectSeq(rows, LAMBDA r : r.City = "Bangalore")

\* the jitter of one coordinate: np.random.uniform(-0.01, 0.01)
jitter(raw) == uniform(-100, 100, raw)

\* line 43 without the two lower() calls
key_matches_case_sensitive(key, area_text) == In(key, area_text)

\* the test of line 43: key.lower() in str(area_text).lower()
key_matches(key, area_text) == In(lower(key), lower(area_text))

\* get_coords from entry k of loc_map on; g is the generator before the call
RECURSIVE get_coords_from(_, _, _)
get_coords_from(k, area_text, g) ==
    IF k > Len(loc_map)
    THEN [lat |-> nan, lon |-> nan, rng |-> g]
    ELSE IF key_matches(loc_map[k].key, area_text)
         THEN [lat |-> Float(loc_map[k].lat + jitter(Raw(g))),
               lon |-> Float(loc_map[k].lon + jitter(Raw(Advance(g)))),
               rng |-> AdvanceBy(g, 2)]
         ELSE get_coords_from(k + 1, area_text, g)

get_coords(area_text, g) == get_coords_from(1, area_text, g)

\* df['Area Locality'].apply(get_coords): the rows with lat and lon, in row
\* order, and the generator after the last call
RECURSIVE apply_get_coords(_, _)
apply_get_coords(rows, g) ==
    IF rows = << >>
    THEN [rows |-> << >>, rng |-> g]
    ELSE LET c    == get_coords(Head(rows).Area_Locality, g)
             rest == apply_get_coords(Tail(rows), c.rng)
             r    == Head(rows)
         IN  [rows |-> << [idx |-> r.idx, City |-> r.City,
                           Area_Locality |-> r.Area_Locality, Rent |-> r.Rent,
                           lat |-> c.lat, lon |-> c.lon] >> \o rest.rows,
              rng  |-> rest.rng]

\* df.dropna(subset=['lat'])
dropna(rows) == SelectSeq(rows, LAMBDA r : ~r.lat.nan)

\* (Rent / 1500) + randint(5, 30), in thirds
cafes(rent, raw) == 2 * rent + 3 * randint(5, 30, raw)

\* np.random.uniform(6.5, 9.8), in tenths
safety_score(raw) == uniform(65, 98, raw)

\* a distance drawn from 0.0 on
metro_dist_km_from_zero(raw) == uniform(0, 100, raw)

\* np.random.uniform(0.5, 10.0), in tenths of a kilometre
metro_dist_km(raw) == uniform(5, 100, raw)

\* lines 58-62: three columns of n draws each, from generator g on
simulate(rows, g) ==
    LET n == Len(rows)
    IN  [i \in 1..n |->
            [idx |-> rows[i].idx, City |-> rows[i].City,
             Area_Locality |-> rows[i].Area_Locality, Rent |-> rows[i].Rent,
             lat |-> rows[i].lat, lon |-> rows[i].lon,
             Cafes         |-> cafes(rows[i].Rent, Raw(AdvanceBy(g, i - 1))),
             Safety_Score  |-> safety_score(Raw(AdvanceBy(g, n + i - 1))),
             Metro_Dist_KM |-> metro_dist_km(Raw(AdvanceBy(g, 2 * n + i - 1)))]]

\* lines 58-64, on the rows dropna kept and the generator seed() left
seeded_columns(kept, seeded) ==
    [raised |-> FALSE, st_error |-> FALSE, value |-> simulate(kept, seeded),
     rng |-> AdvanceBy(seeded, 3 * Len(kept))]

\* lines 53-64, on what line 50 produced
drop_and_simulate(coords) ==
    seeded_columns(dropna(coords.rows), seed(coords.rng))

\* lines 50-64, on the rows of the city.  zip(*...) of no rows yields
\* nothing to unpack into lat and lon: line 50 raises a ValueError.
coordinates_and_columns(city, g) ==
    IF Len(city) = 0
    THEN [raised |-> TRUE, st_error |-> FALSE, value |-> << >>, rng |-> g]
    ELSE drop_and_simulate(apply_get_coords(city, g))

\* The body of load_data.  raised: the call ended in an exception;
\* st_error: the message of line 14 was shown.
load_data(f, g) ==
    IF ~f.exists
    THEN [raised |-> FALSE, st_error |-> TRUE, value |-> << >>, rng |-> g]
    ELSE coordinates_and_columns(city_filter(read_csv(f)), g)

(***************************************************************************)
(* @st.cache_data, line 7: the first call that returns stores the value    *)
(* and the elements it showed; a later call returns a copy of the value    *)
(* and shows the elements again, without running the body.  A call that    *)
(* raises stores nothing.                                                  *)
(***************************************************************************)
NotCached == [filled |-> FALSE, value |-> << >>, st_error |-> FALSE]

\* no memoization: every call runs the body
cache_never_hit(c) == FALSE

cache_hit(c) == c.filled

\* the call ran the body and the body ended with r
cache_store(c, r) ==
    [body |-> TRUE, raised |-> r.raised, st_error |-> r.st_error,
     value |-> r.value, rng |-> r.rng,
     cache |-> IF r.raised THEN c
               ELSE [filled |-> TRUE, value |-> r.value,
                     st_error |-> r.st_error]]

cached_load_data(c, f, g) ==
    IF cache_hit(c)
    THEN [body |-> FALSE, raised |-> FALSE, st_error |-> c.st_error,
          value |-> c.value, rng |-> g, cache |-> c]
    ELSE cache_store(c, load_data(f, g))

(***************************************************************************)
(* The script from line 75 on.                                             *)
(***************************************************************************)
\* line 75 without its test: the script never stops there
df_empty_never(frame) == FALSE

\* df.empty, line 75
df_empty(frame) == Len(frame) = 0

\* line 89 with Rent < budget
filter_strict(frame, b, s) ==
    SelectSeq(frame, LAMBDA r : r.Rent < b /\ r.Safety_Score >= s)

\* line 89: df[(df['Rent'] <= budget) & (df['Safety_Score'] >= min_safety)]
filter(frame, b, s) ==
    SelectSeq(frame, LAMBDA r : r.Rent <= b /\ r.Safety_Score >= s)

\* line 91 without its test: the scoring branch is always taken
filtered_not_empty_always(frame) == TRUE

\* not filtered_df.empty, line 91
filtered_not_empty(frame) == Len(frame) > 0

\* lines 93-96 with the quotient by Rent / 1000 turned into a product
value_score_times_rent(cafes3, dist, rent, wc, wm) ==
    IF dist = 0
    THEN [num |-> IF wm = 0 THEN 0 ELSE 1, den |-> 0]
    ELSE [num |-> (cafes3 * wc * dist + 3000 * wm) * rent, den |-> 30 * dist]

\* lines 93-96 for one row:
\*   (Cafes * w_cafe + (1 / Metro_Dist_KM) * 100 * w_metro) / (Rent / 1000)
\* = (Cafes3 * wc * D + 3000 * wm) / (30 * D * Rent_k)   in the model's units.
\* Float division by zero does not raise: den = 0 stands for the result,
\* inf (num = 1), or NaN (num = 0) when the numerator is inf * 0.
value_score(cafes3, dist, rent, wc, wm) ==
    IF dist = 0
    THEN [num |-> IF wm = 0 THEN 0 ELSE 1, den |-> 0]
    ELSE [num |-> cafes3 * wc * dist + 3000 * wm, den |-> 30 * dist * rent]

\* filtered_df['Value_Score'] = ...
assign_value_score(frame, wc, wm) ==
    [i \in 1..Len(frame) |->
        [idx |-> frame[i].idx, City |-> frame[i].City,
         Area_Locality |-> frame[i].Area_Locality, Rent |-> frame[i].Rent,
         lat |-> frame[i].lat, lon |-> frame[i].lon,
         Cafes |-> frame[i].Cafes, Safety_Score |-> frame[i].Safety_Score,
         Metro_Dist_KM |-> frame[i].Metro_Dist_KM,
         Value_Score |-> value_score(frame[i].Cafes, frame[i].Metro_Dist_KM,
                                     frame[i].Rent, wc, wm)]]

\* -1, 0 or 1 as a/b is less than, equal to or greater than c/d (b, d > 0),
\* by continued fractions, so that no product leaves the integers of TLC
RECURSIVE frac_cmp(_, _, _, _)
frac_cmp(a, b, c, d) ==
    LET q1 == a \div b
        q2 == c \div d
        r1 == a % b
        r2 == c % d
    IN  IF q1 < q2 THEN -1
        ELSE IF q1 > q2 THEN 1
        ELSE IF r1 = 0 /\ r2 = 0 THEN 0
        ELSE IF r1 = 0 THEN -1
        ELSE IF r2 = 0 THEN 1
        ELSE frac_cmp(d, r2, b, r1)

\* the order of two scores that are not NaN; inf is above every number
score_cmp(x, y) ==
    IF x.den = 0 /\ y.den = 0 THEN 0
    ELSE IF x.den = 0 THEN 1
    ELSE IF y.den = 0 THEN -1
    ELSE frac_cmp(x.num, x.den, y.num, y.den)

is_nan(x) == x.den = 0 /\ x.num = 0

Reverse(s) == [i \in 1..Len(s) |-> s[Len(s) + 1 - i]]

\* one step of an ascending argsort: index j enters the sorted indexes.
\* A stable sort puts it after the keys equal to its own; ties = "reversed"
\* is a sort that puts it before them.
RECURSIVE insert_index(_, _, _, _)
insert_index(keys, sorted, j, ties) ==
    IF sorted = << >>
    THEN << j >>
    ELSE LET c == score_cmp(keys[j], keys[Head(sorted)])
         IN  IF c < 0 \/ (c = 0 /\ ties = "reversed")
             THEN << j >> \o sorted
             ELSE << Head(sorted) >> \o insert_index(keys, Tail(sorted), j, ties)

\* keys.argsort(kind=...) on the first n keys
RECURSIVE argsort(_, _, _)
argsort(keys, n, ties) ==
    IF n = 0 THEN << >>
    ELSE insert_index(keys, argsort(keys, n - 1, ties), n, ties)

\* line 99: sort_values(by='Value_Score', ascending=False).  pandas sorts
\* the reversed non-NaN keys ascending, reverses the result and puts the NaN
\* rows last; kind is left at its default, quicksort, whose order of equal
\* keys is the build's.
sort_values(frame, ties) ==
    LET nans == SelectSeq(frame, LAMBDA r : is_nan(r.Value_Score))
        rest == Reverse(SelectSeq(frame, LAMBDA r : ~is_nan(r.Value_Score)))
        keys == [i \in 1..Len(rest) |-> rest[i].Value_Score]
        perm == Reverse(argsort(keys, Len(rest), ties))
    IN  [i \in 1..Len(rest) |-> rest[perm[i]]] \o nans

\* line 93 assigning the column into df as well
score_statement_on_df(d, fd, wc, wm) ==
    [df |-> assign_value_score(d, wc, wm),
     filtered_df |-> assign_value_score(fd, wc, wm)]

\* line 93: the statement assigns into filtered_df, and df is not touched
score_statement(d, fd, wc, wm) ==
    [df |-> d, filtered_df |-> assign_value_score(fd, wc, wm)]

\* What a pass executed and showed.
NoPass ==
    [ran |-> FALSE, loader_body |-> FALSE, raised |-> FALSE,
     data_source_missing |-> FALSE, stopped |-> FALSE, widgets |-> FALSE,
     filter_ran |-> FALSE, score_ran |-> FALSE, sort_ran |-> FALSE,
     dashboard |-> FALSE, empty_result |-> FALSE]

NoFrame == << >>

\* the pass once line 67 has returned or raised
begun(ld) ==
    [NoPass EXCEPT !.ran = TRUE, !.loader_body = ld.body,
                   !.data_source_missing = ld.st_error]

\* lines 98-141: the sort and the display
sort_and_show(ld, scored, ties) ==
    [cache |-> ld.cache, rng |-> ld.rng, df |-> scored.df,
     filtered_df |-> sort_values(scored.filtered_df, ties),
     pass |-> [begun(ld) EXCEPT !.widgets = TRUE, !.filter_ran = TRUE,
                                !.score_ran = TRUE, !.sort_ran = TRUE,
                                !.dashboard = TRUE]]

\* lines 91-144, on the filtered frame fd
score_or_advise(ld, fd, wc, wm, ties) ==
    IF filtered_not_empty(fd)
    THEN sort_and_show(ld, score_statement(ld.value, fd, wc, wm), ties)
    ELSE \* lines 143-144
         [cache |-> ld.cache, rng |-> ld.rng, df |-> ld.value,
          filtered_df |-> fd,
          pass |-> [begun(ld) EXCEPT !.widgets = TRUE, !.filter_ran = TRUE,
                                     !.empty_result = TRUE]]

\* lines 70-144, on what line 67 gave
script_after_load(ld, b, s, wc, wm, ties) ==
    IF ld.raised
    THEN \* line 67 raised: the script ends there
         [cache |-> ld.cache, rng |-> ld.rng, df |-> NoFrame,
          filtered_df |-> NoFrame,
          pass |-> [begun(ld) EXCEPT !.raised = TRUE]]
    ELSE IF df_empty(ld.value)
    THEN \* lines 75-76: st.stop()
         [cache |-> ld.cache, rng |-> ld.rng, df |-> ld.value,
          filtered_df |-> NoFrame,
          pass |-> [begun(ld) EXCEPT !.stopped = TRUE]]
    ELSE score_or_advise(ld, filter(ld.value, b, s), wc, wm, ties)

\* One execution of the script, lines 67-144, with the sliders at b, s, wc,
\* wm: the values of cache, rng, df and filtered_df it leaves, and the pass.
run_script(c, f, g, b, s, wc, wm, ties) ==
    script_after_load(cached_load_data(c, f, g), b, s, wc, wm, ties)

(***************************************************************************)
(* Inputs.                                                                 *)
(***************************************************************************)
KoramangalaCross ==
    <<"K","o","r","a","m","a","n","g","a","l","a"," ","C","r","o","s","s">>
HebbalNearWhitefield ==
    <<"h","e","b","b","a","l",","," ","n","e","a","r"," ","W","H","I","T","E","F","I","E","L","D">>
Rajajinagar ==
    <<"R","a","j","a","j","i","n","a","g","a","r">>

AreaTexts == {KoramangalaCross, HebbalNearWhitefield, Rajajinagar}
RentVals == {35, 45}

\* the rows a file may hold: the locale's rows, and a row of another city
FileRows ==
    {[City |-> "Bangalore", Area_Locality |-> a, Rent |-> r] :
        a \in AreaTexts, r \in RentVals}
    \cup {[City |-> "Mumbai", Area_Locality |-> KoramangalaCross, Rent |-> 35]}

Files ==
    {NoFile} \cup
    {[exists |-> TRUE, rows |-> rows] :
        rows \in UNION {[1..n -> FileRows] : n \in 0..MaxRows}}

\* slider defaults, lines 80-85
BudgetDefault == 35
MinSafetyDefault == 70
WCafeDefault == 5
WMetroDefault == 8

\* slider positions the model visits: both ends of each slider's range and
\* its default
BudgetVals == {5, BudgetDefault, 100}
MinSafetyVals == {10, MinSafetyDefault, 100}
WCafeVals == {0, WCafeDefault}
WMetroVals == {0, WMetroDefault}

QuicksortTies == {"input order", "reversed"}

NoPrevLoad == [loaded |-> FALSE, value |-> << >>]

(***************************************************************************)
(* The state machine.                                                      *)
(***************************************************************************)
Init ==
    /\ file \in Files
    /\ quicksort \in QuicksortTies
    /\ rng \in {[seed |-> e, pos |-> 0] : e \in EntropySeeds}
    /\ cache = NotCached
    /\ loads = 0
    /\ df = NoFrame
    /\ filtered_df = NoFrame
    /\ budget = BudgetDefault
    /\ min_safety = MinSafetyDefault
    /\ w_cafe = WCafeDefault
    /\ w_metro = WMetroDefault
    /\ pass = NoPass
    /\ prev_load = NoPrevLoad

\* the state a pass leaves, r being what the script did
Leave(r, b, s, wc, wm) ==
    /\ r.pass.loader_body => loads < MaxLoads
    /\ cache' = r.cache
    /\ rng' = r.rng
    /\ loads' = IF r.pass.loader_body THEN loads + 1 ELSE loads
    /\ df' = r.df
    /\ filtered_df' = r.filtered_df
    /\ pass' = r.pass
    /\ budget' = b
    /\ min_safety' = s
    /\ w_cafe' = wc
    /\ w_metro' = wm
    /\ UNCHANGED << file, quicksort, prev_load >>

\* a render pass with the sliders at b, s, wc, wm
Render(b, s, wc, wm) ==
    Leave(run_script(cache, file, rng, b, s, wc, wm, quicksort), b, s, wc, wm)

\* the session opens: the first pass, with every slider at its default
FirstRun ==
    /\ ~pass.ran
    /\ Render(budget, min_safety, w_cafe, w_metro)

\* the user moves a slider the last pass rendered: the script runs again
SetBudget(v) ==
    /\ pass.widgets
    /\ v # budget
    /\ Render(v, min_safety, w_cafe, w_metro)

SetMinSafety(v) ==
    /\ pass.widgets
    /\ v # min_safety
    /\ Render(budget, v, w_cafe, w_metro)

SetWCafe(v) ==
    /\ pass.widgets
    /\ v # w_cafe
    /\ Render(budget, min_safety, v, w_metro)

SetWMetro(v) ==
    /\ pass.widgets
    /\ v # w_metro
    /\ Render(budget, min_safety, w_cafe, v)

PreferenceChange ==
    \/ \E v \in BudgetVals : SetBudget(v)
    \/ \E v \in MinSafetyVals : SetMinSafety(v)
    \/ \E v \in WCafeVals : SetWCafe(v)
    \/ \E v \in WMetroVals : SetWMetro(v)

Next == FirstRun \/ PreferenceChange

Spec == Init /\ [][Next]_vars

\* The process ends and a new one starts on the same file: its generator is
\* seeded afresh from the system's entropy, its cache is empty, and the
\* session opens with the sliders at their defaults.  prev_load keeps what
\* load_data had returned, for comparison with what it returns next.
Restart ==
    /\ cache.filled
    /\ ~prev_load.loaded
    /\ prev_load' = [loaded |-> TRUE, value |-> cache.value]
    /\ rng' \in {[seed |-> e, pos |-> 0] : e \in EntropySeeds}
    /\ cache' = NotCached
    /\ loads' = 0
    /\ df' = NoFrame
    /\ filtered_df' = NoFrame
    /\ budget' = BudgetDefault
    /\ min_safety' = MinSafetyDefault
    /\ w_cafe' = WCafeDefault
    /\ w_metro' = WMetroDefault
    /\ pass' = NoPass
    /\ UNCHANGED << file, quicksort >>

NextTwoLoads == Next \/ Restart

SpecTwoLoads == Init /\ [][NextTwoLoads]_vars

(***************************************************************************)
(* Properties.                                                             *)
(***************************************************************************)
EnrichedColumns ==
    {"idx", "City", "Area_Locality", "Rent", "lat", "lon",
     "Cafes", "Safety_Score", "Metro_Dist_KM"}

\* two rows agree on every column of the enriched set
SameListing(r, q) == \A c \in EnrichedColumns : r[c] = q[c]

\* rows i of frame that meet the thresholds of the session
Passing(frame) ==
    {i \in 1..Len(frame) :
        frame[i].Rent <= budget /\ frame[i].Safety_Score >= min_safety}

\* C1: in a pass on a missing file load_data shows the DataSourceMissing
\* message and returns an empty frame, the pass stops at line 76, and no
\* filter, score or sort is executed in it.
C1_MissingFileHalts ==
    (pass.ran /\ ~file.exists) =>
        /\ pass.data_source_missing
        /\ Len(df) = 0
        /\ cache.filled /\ Len(cache.value) = 0
        /\ pass.stopped
        /\ ~pass.widgets
        /\ ~pass.filter_ran /\ ~pass.score_ran /\ ~pass.sort_ran
        /\ ~pass.dashboard /\ ~pass.empty_result
        /\ filtered_df = NoFrame

C1_Witness == pass.ran /\ ~file.exists /\ pass.loader_body

\* C2: the filtered result is exactly the enriched rows with Rent <= budget
\* and Safety_Score >= min_safety: each of its rows meets both conditions
\* and is an enriched row, and each enriched row that meets both is in it,
\* once.
C2_FilterExact ==
    pass.filter_ran =>
        /\ \A j \in 1..Len(filtered_df) :
              /\ filtered_df[j].Rent <= budget
              /\ filtered_df[j].Safety_Score >= min_safety
              /\ \E i \in 1..Len(df) : SameListing(df[i], filtered_df[j])
        /\ \A i \in Passing(df) :
              \E j \in 1..Len(filtered_df) : SameListing(df[i], filtered_df[j])
        /\ Len(filtered_df) = Cardinality(Passing(df))

\* the filter kept a row whose Rent is the budget itself and dropped another
C2_Witness ==
    /\ pass.filter_ran
    /\ Len(filtered_df) > 0
    /\ Len(filtered_df) < Len(df)
    /\ \E j \in 1..Len(filtered_df) : filtered_df[j].Rent = budget

\* text contains key, whatever the case of the letters
ContainsKey(text, key) ==
    LET t == lower(text)
        k == lower(key)
    IN  \E off \in 0..(Len(t) - Len(k)) : SubSeq(t, off + 1, off + Len(k)) = k

\* the entries of loc_map whose key text contains
MatchingKeys(text) ==
    {k \in 1..Len(loc_map) : ContainsKey(text, loc_map[k].key)}

\* the first of a set of entries, in the order of loc_map
First(keys) == CHOOSE k \in keys : \A h \in keys : k <= h

\* row r has the text it was read with and coordinates within 0.01 degrees
\* of entry e
ResolvedTo(r, text, e) ==
    /\ r.Area_Locality = text
    /\ ~r.lat.nan /\ ~r.lon.nan
    /\ r.lat.v - e.lat >= -100
    /\ r.lat.v - e.lat <= 100
    /\ r.lon.v - e.lon >= -100
    /\ r.lon.v - e.lon <= 100

\* the row read at index i with the given text is in the enriched frame if
\* and only if keys is not empty, and is then resolved to the first of keys
RowResolved(frame, i, text, keys) ==
    LET present == {n \in 1..Len(frame) : frame[n].idx = i}
    IN  /\ (present # {}) <=> (keys # {})
        /\ Cardinality(present) <= 1
        /\ \A n \in present : ResolvedTo(frame[n], text, loc_map[First(keys)])

\* C3: a row of the locale is in the enriched set if and only if its Area
\* Locality contains a key of loc_map, in any case; its lat and lon are then
\* within 0.01 degrees of the value of the first such key in table order.
\* The enriched set is the one the loading pass has just stored.
C3_CoordinateResolution ==
    (pass.loader_body /\ cache.filled /\ file.exists) =>
        \A i \in 1..Len(file.rows) :
            file.rows[i].City = "Bangalore" =>
                RowResolved(cache.value, i - 1, file.rows[i].Area_Locality,
                            MatchingKeys(file.rows[i].Area_Locality))

\* a row that names two keys in another case than the table's, the later of
\* the table first, is in the enriched set, and a row that names none is not
C3_Witness ==
    /\ cache.filled
    /\ \E n \in 1..Len(cache.value) :
          cache.value[n].Area_Locality = HebbalNearWhitefield
    /\ \E i \in 1..Len(file.rows) :
          /\ file.rows[i].City = "Bangalore"
          /\ file.rows[i].Area_Locality = Rajajinagar
          /\ \A n \in 1..Len(cache.value) : cache.value[n].idx # i - 1

\* C4: the sorted result is a permutation of the rows the filter kept, in
\* descending order of Value_Score, and rows of equal Value_Score are in the
\* order of the filtered input (ascending index).
C4_StableDescending ==
    pass.sort_ran =>
        /\ Len(filtered_df) = Cardinality(Passing(df))
        /\ \A i \in Passing(df) :
              \E j \in 1..Len(filtered_df) : SameListing(df[i], filtered_df[j])
        /\ \A j \in 1..(Len(filtered_df) - 1) :
              LET c == score_cmp(filtered_df[j].Value_Score,
                                 filtered_df[j + 1].Value_Score)
              IN  /\ c >= 0
                  /\ c = 0 => filtered_df[j].idx < filtered_df[j + 1].idx

\* what the sort does guarantee: a permutation in descending order
C4_DescendingPermutation ==
    pass.sort_ran =>
        /\ Len(filtered_df) = Cardinality(Passing(df))
        /\ \A i \in Passing(df) :
              \E j \in 1..Len(filtered_df) : SameListing(df[i], filtered_df[j])
        /\ \A j \in 1..(Len(filtered_df) - 1) :
              score_cmp(filtered_df[j].Value_Score,
                        filtered_df[j + 1].Value_Score) >= 0

\* C5: when the enriched set is not empty and none of its rows meets the
\* thresholds, the pass ends in the EmptyResult advisory of line 144: the
\* message of line 14 is not shown, nothing is scored or sorted, and no pass
\* shows both messages.
C5_EmptyResultNotLoadFailure ==
    /\ (pass.ran /\ cache.filled /\ Len(cache.value) > 0 /\ Passing(df) = {}) =>
          /\ pass.empty_result
          /\ ~pass.data_source_missing
          /\ ~pass.stopped /\ ~pass.raised
          /\ pass.filter_ran
          /\ ~pass.score_ran /\ ~pass.sort_ran /\ ~pass.dashboard
          /\ Len(filtered_df) = 0
    /\ ~(pass.empty_result /\ pass.data_source_missing)

\* the budget is below every Rent of a loaded, non-empty enriched set
C5_Witness ==
    /\ pass.empty_result
    /\ Len(cache.value) > 0
    /\ \A i \in 1..Len(df) : df[i].Rent > budget

\* weights and rents the monotonicity is compared on
WeightGrid == {0, 3, 5, 8, 10}
RentGrid == {5, 35, 45, 100}

\* C6: for every enriched row the value score does not decrease when w_cafe
\* grows, nor when w_metro grows, and does not increase when Rent grows, the
\* other inputs (Cafes and Metro_Dist_KM among them) being held fixed.  The
\* rows are those of the pass that loaded them: later passes score the same.
C6_ScoreMonotone ==
    pass.loader_body =>
      \A i \in 1..Len(df) :
        LET c == df[i].Cafes
            d == df[i].Metro_Dist_KM
            r == df[i].Rent
        IN  /\ \A w1, w2, w \in WeightGrid :
                  w1 <= w2 =>
                      /\ score_cmp(value_score(c, d, r, w1, w),
                                   value_score(c, d, r, w2, w)) <= 0
                      /\ score_cmp(value_score(c, d, r, w, w1),
                                   value_score(c, d, r, w, w2)) <= 0
            /\ \A r1, r2 \in RentGrid, wc, wm \in WeightGrid :
                  r1 <= r2 =>
                      score_cmp(value_score(c, d, r1, wc, wm),
                                value_score(c, d, r2, wc, wm)) >= 0

\* a scored row whose score grows strictly with each weight and falls
\* strictly with Rent
C6_Witness ==
    /\ pass.score_ran
    /\ \E i \in 1..Len(df) :
          LET c == df[i].Cafes
              d == df[i].Metro_Dist_KM
              r == df[i].Rent
          IN  /\ score_cmp(value_score(c, d, r, 0, 8),
                           value_score(c, d, r, 5, 8)) < 0
              /\ score_cmp(value_score(c, d, r, 5, 0),
                           value_score(c, d, r, 5, 8)) < 0
              /\ score_cmp(value_score(c, d, 35, 5, 8),
                           value_score(c, d, 45, 5, 8)) > 0

\* a row without its coordinates
NoCoords(r) ==
    [idx |-> r.idx, City |-> r.City, Area_Locality |-> r.Area_Locality,
     Rent |-> r.Rent, Cafes |-> r.Cafes, Safety_Score |-> r.Safety_Score,
     Metro_Dist_KM |-> r.Metro_Dist_KM]

\* a scored row without its coordinates
ScoredNoCoords(r) ==
    [idx |-> r.idx, Rent |-> r.Rent, Cafes |-> r.Cafes,
     Safety_Score |-> r.Safety_Score, Metro_Dist_KM |-> r.Metro_Dist_KM,
     Value_Score |-> r.Value_Score]

\* lines 89-99 on an enriched frame
Ranked(frame, b, s, wc, wm) ==
    sort_values(assign_value_score(filter(frame, b, s), wc, wm), quicksort)

RankedNoCoords(frame, b, s, wc, wm) ==
    LET ranked == Ranked(frame, b, s, wc, wm)
    IN  [i \in 1..Len(ranked) |-> ScoredNoCoords(ranked[i])]

\* C7: two loads of the same file, whatever jitter each drew, give the same
\* rows with the same Cafes, Safety_Score and Metro_Dist_KM, and so, for the
\* same thresholds and weights, the same filtered rows with the same value
\* scores in the same order.
\* The second process's ranking, at each position of its sliders, is what
\* lines 89-99 give on the first load at the same position.
C7_JitterDoesNotAffectRanking ==
    (prev_load.loaded /\ cache.filled) =>
        /\ Len(cache.value) = Len(prev_load.value)
        /\ \A i \in 1..Len(cache.value) :
              NoCoords(cache.value[i]) = NoCoords(prev_load.value[i])
        /\ pass.sort_ran =>
              [j \in 1..Len(filtered_df) |-> ScoredNoCoords(filtered_df[j])]
                  = RankedNoCoords(prev_load.value, budget, min_safety,
                                   w_cafe, w_metro)
        /\ pass.empty_result =>
              Len(filter(prev_load.value, budget, min_safety)) = 0

\* the second load drew another jitter than the first, and its rows are
\* ranked
C7_Witness ==
    /\ prev_load.loaded
    /\ cache.filled
    /\ pass.sort_ran
    /\ Len(filtered_df) > 1
    /\ \E i \in 1..Len(cache.value) :
          /\ cache.value[i].lat # prev_load.value[i].lat
          /\ cache.value[i].lon # prev_load.value[i].lon

\* C8: once loaded, the enriched set is the same after every pass: the
\* cached value and the script's df keep their rows, their order and their
\* columns, and df never has a Value_Score column.
C8_EnrichedSetUnchanged ==
    [][cache.filled =>
          /\ cache' = cache
          /\ df' = df
          /\ df' = cache.value
          /\ \A i \in 1..Len(df') : DOMAIN df'[i] = EnrichedColumns]_vars

\* passes after changes of a threshold and of a weight, the last one scored:
\* filtered_df has the Value_Score column and df does not
C8_Witness ==
    /\ pass.score_ran
    /\ budget # BudgetDefault
    /\ w_metro # WMetroDefault
    /\ \A j \in 1..Len(filtered_df) : "Value_Score" \in DOMAIN filtered_df[j]
    /\ \A i \in 1..Len(df) : "Value_Score" \notin DOMAIN df[i]

\* the sliders differ between the two states of a step
SliderChanged ==
    << budget', min_safety', w_cafe', w_metro' >>
        # << budget, min_safety, w_cafe, w_metro >>

C10_MetroDistInRange ==
    /\ \A i \in 1..Len(df) :
          df[i].Metro_Dist_KM >= 5 /\ df[i].Metro_Dist_KM <= 100
    /\ pass.score_ran =>
          \A j \in 1..Len(filtered_df) :
              /\ filtered_df[j].Metro_Dist_KM >= 5
              /\ filtered_df[j].Metro_Dist_KM <= 100
              /\ filtered_df[j].Value_Score.den # 0

\* a scored row at the least distance the generator can give
C10_Witness ==
    /\ pass.score_ran
    /\ \E j \in 1..Len(filtered_df) : filtered_df[j].Metro_Dist_KM = 5

====
